---- MODULE Spec2Model ----
(***************************************************************************)
(* Model of app.py (tk_data_cleaner): the delimiter/encoding reader, the   *)
(* UnifiedApp handlers (selecionar_arquivo, mover_cima, mover_baixo,       *)
(* remover_colunas, gerar_txt) and the cleaning pipeline they call.        *)
(*                                                                         *)
(* Text is a sequence of one-character strings.  A file is its extension   *)
(* and its content: lines of bytes for delimited text, a sheet for a       *)
(* spreadsheet.  A dataset is a record of its column names and its rows,   *)
(* a row being the sequence of its cells in column order.                  *)
(***************************************************************************)
EXTENDS Integers, Sequences, FiniteSets, TLC

\* ------------------------------------------------------------------ bounds
\* Rows of the generated one-column tables.
MaxRows == 3

\* ------------------------------------------------------------ text helpers
SEMI == ";"
COMMA == ","
TAB == "\t"
\* The byte 0xE9: not valid UTF-8 on its own, e-acute in Latin-1.
BYTE_E9 == "xE9"
E_ACUTE == "e'"
QUOTE == "\""
WS == {" ", TAB}

RECURSIVE Split(_, _)
\* The fields of one line cut at every occurrence of sep.
Split(line, sep) ==
    IF \A i \in 1..Len(line) : line[i] # sep
    THEN <<line>>
    ELSE LET k == CHOOSE i \in 1..Len(line) :
                      line[i] = sep /\ \A j \in 1..(i - 1) : line[j] # sep
         IN <<SubSeq(line, 1, k - 1)>> \o Split(SubSeq(line, k + 1, Len(line)), sep)

RECURSIVE Join(_, _)
\* The fields joined by sep into one line.
Join(fields, sep) ==
    IF Len(fields) = 0 THEN <<>>
    ELSE IF Len(fields) = 1 THEN fields[1]
    ELSE fields[1] \o <<sep>> \o Join(Tail(fields), sep)

RECURSIVE SelectIdx(_, _, _)
\* The entries of s at the positions i..Len(s) that satisfy keep, in order.
SelectIdx(s, keep, i) ==
    IF i > Len(s) THEN <<>>
    ELSE (IF keep[i] THEN <<s[i]>> ELSE <<>>) \o SelectIdx(s, keep, i + 1)

Range(s) == {s[i] : i \in 1..Len(s)}

\* ------------------------------------------------------------------ tables
\* self.df: None until a load succeeds, then a DataFrame.
None == [none |-> TRUE, columns |-> <<>>, rows |-> <<>>]
DataFrame(cols, rows) == [none |-> FALSE, columns |-> cols, rows |-> rows]

ColA == <<"A">>
ColB == <<"B">>
ab == <<"a", "b">>
abcd == <<"a", "b", "c", "d">>

\* Every sequence over S of length at most n.
SeqUpTo(S, n) == UNION {[1..k -> S] : k \in 0..n}

\* One-column tables: every sequence of at most MaxRows keys over {ab, abcd}.
KeyTables == {DataFrame(<<ColA>>, [i \in 1..Len(ks) |-> <<ks[i]>>]) : ks \in SeqUpTo({ab, abcd}, MaxRows)}

\* Two-column tables: cells with surplus whitespace, keys that collide only
\* once normalised, a Latin-1 cell, duplicate keys in the second column.
WideTables ==
    { DataFrame(<<ColA, ColB>>, << <<<<" ", "a", "b">>, <<"x">>>>,
                                   <<abcd, <<"x", " ", " ", "y">>>>,
                                   <<abcd, <<"x">>>> >>),
      DataFrame(<<ColA, ColB>>, << <<abcd, <<"x", "y">>>>,
                                   <<<<"a", " ", " ", "b">>, <<"x", "y">>>>,
                                   <<<<"a", " ", "b">>, <<"z">>>> >>),
      DataFrame(<<ColA, ColB>>, <<>>) }

\* A table with a cell that only Latin-1 can decode.
LatinTable == DataFrame(<<ColA, ColB>>, << <<<<"a", BYTE_E9>>, <<"x">>>>,
                                           <<abcd, <<"y">>>> >>)

\* ------------------------------------------------------------------- files
\* A file on disk: extension, text content (lines of bytes) and, for a
\* spreadsheet, the sheet it holds (or a corrupt workbook).
TextFile(ext, lines) == [ext |-> ext, lines |-> lines, sheet |-> None, corrupt |-> FALSE]
Workbook(ext, sheet) == [ext |-> ext, lines |-> <<>>, sheet |-> sheet, corrupt |-> FALSE]
CorruptWorkbook(ext) == [ext |-> ext, lines |-> <<>>, sheet |-> None, corrupt |-> TRUE]

\* The lines of table t written with delimiter sep: header first.
Lines(t, sep) ==
    <<Join(t.columns, sep)>> \o [i \in 1..Len(t.rows) |-> Join(t.rows[i], sep)]

Seps == {SEMI, COMMA, TAB}

Files ==
    {TextFile(".csv", Lines(t, SEMI)) : t \in KeyTables}
    \cup {TextFile(".csv", Lines(t, s)) : t \in WideTables \cup {LatinTable}, s \in Seps}
    \cup {TextFile(".txt", Lines(LatinTable, COMMA))}
    \cup { TextFile(".csv", <<>>),                                   \* empty file
           TextFile(".txt", << <<"A", SEMI, "A">>, <<"a", SEMI, "b">> >>),   \* repeated header
           TextFile(".csv", << <<"A", COMMA, "B">>, <<QUOTE, "a", COMMA, BYTE_E9>> >>),
           TextFile(".csv", << <<"A", COMMA, "B">>, <<QUOTE, "a", COMMA, "b">> >>),
           TextFile(".csv", << <<"A", SEMI, "B">>, <<"a", "b", SEMI, "x">>,
                               <<"a", SEMI, "y", SEMI, "z">> >>),       \* a line with a surplus field
           TextFile(".dat", << <<"A">>, ab >>),
           CorruptWorkbook(".xlsx"),
           CorruptWorkbook(".xls") }
    \cup {Workbook(".xlsx", t) : t \in WideTables}
    \cup {Workbook(".xls", DataFrame(<<ColA>>, << <<ab>>, <<abcd>>, <<ab>> >>))}

\* ------------------------------------------------------------ pd.read_csv
AllOf(lines) == UNION {Range(lines[i]) : i \in 1..Len(lines)}

\* Decoding the bytes: UTF-8 rejects a lone 0xE9, Latin-1 maps every byte.
DecodeFails(lines, encoding) == encoding = "utf-8" /\ BYTE_E9 \in AllOf(lines)
Decode(lines) ==
    [i \in 1..Len(lines) |->
        [j \in 1..Len(lines[i]) |-> IF lines[i][j] = BYTE_E9 THEN E_ACUTE ELSE lines[i][j]]]

\* skip_blank_lines: empty lines are not records.
Records(lines) == SelectIdx(lines, [i \in 1..Len(lines) |-> lines[i] # <<>>], 1)

\* quotechar='"': a field that opens with a quote runs to the closing quote;
\* the files modelled hold at most one quote, so such a field runs to the end
\* of the file ("EOF inside string").
EofInsideString(recs, sep) ==
    \E i \in 1..Len(recs) :
        \E j \in 1..Len(recs[i]) :
            /\ recs[i][j] = QUOTE
            /\ (j = 1 \/ recs[i][j - 1] = sep)

RECURSIVE MangleDupeCols(_, _)
\* Repeated header names get the suffix .1, .2, ... in header order.
MangleDupeCols(names, i) ==
    IF i > Len(names) THEN <<>>
    ELSE LET k == Cardinality({j \in 1..(i - 1) : names[j] = names[i]})
         IN <<IF k = 0 THEN names[i] ELSE names[i] \o <<".", ToString(k)>> >>
            \o MangleDupeCols(names, i + 1)

\* A record shorter than the header is padded with missing cells.
Pad(fields, n) == [j \in 1..n |-> IF j <= Len(fields) THEN fields[j] ELSE <<>>]

\* pd.read_csv(path, sep=sep, quotechar='"', encoding=encoding,
\* on_bad_lines='skip'): the exception raised, or the DataFrame read.  The
\* first record is the header; a later record with more fields than the
\* header is skipped.
read_csv(file, sep, encoding) ==
    IF DecodeFails(file.lines, encoding)
    THEN [status |-> "UnicodeDecodeError", df |-> None]
    ELSE LET recs == Records(Decode(file.lines)) IN
         IF Len(recs) = 0 THEN [status |-> "EmptyDataError", df |-> None]
         ELSE IF EofInsideString(recs, sep) THEN [status |-> "ParserError", df |-> None]
         ELSE LET toks == [i \in 1..Len(recs) |-> Split(recs[i], sep)]
                  n == Len(toks[1])
                  body == SelectIdx(toks, [i \in 1..Len(toks) |-> i > 1 /\ Len(toks[i]) <= n], 1)
              IN [status |-> "ok",
                  df |-> DataFrame(MangleDupeCols(toks[1], 1),
                                   [i \in 1..Len(body) |-> Pad(body[i], n)])]

\* pd.read_excel(path): the first sheet, or an exception on a file that is no
\* workbook.
read_excel(file) ==
    IF file.corrupt \/ file.sheet.none
    THEN [status |-> "ValueError", df |-> None]
    ELSE [status |-> "ok", df |-> file.sheet]

\* ------------------------------------------- tentar_leitura_csv_variavel_sep
\* Faulty variant of sep_list: comma tried before semicolon.
sep_list_comma_first == <<COMMA, SEMI, TAB>>

sep_list == <<SEMI, COMMA, TAB>>

Attempt(sep, encoding, r) == [sep |-> sep, encoding |-> encoding, status |-> r.status]

RECURSIVE tentar_leitura_from(_, _)
\* The for loop from its k-th delimiter on: the result (raised or returned
\* DataFrame) and the read_csv calls made, in order.
tentar_leitura_from(file, k) ==
    IF k > Len(sep_list)
    THEN [raised |-> TRUE, df |-> None, attempts |-> <<>>]
    ELSE LET sep == sep_list[k]
             u == read_csv(file, sep, "utf-8")
             l == read_csv(file, sep, "latin1")
             rest == tentar_leitura_from(file, k + 1)
         IN IF u.status = "ok"
            THEN [raised |-> FALSE, df |-> u.df, attempts |-> <<Attempt(sep, "utf-8", u)>>]
            ELSE IF u.status = "UnicodeDecodeError"
            THEN IF l.status = "ok"
                 THEN [raised |-> FALSE, df |-> l.df,
                       attempts |-> <<Attempt(sep, "utf-8", u), Attempt(sep, "latin1", l)>>]
                 ELSE [rest EXCEPT !.attempts =
                          <<Attempt(sep, "utf-8", u), Attempt(sep, "latin1", l)>> \o @]
            ELSE [rest EXCEPT !.attempts = <<Attempt(sep, "utf-8", u)>> \o @]

tentar_leitura_csv_variavel_sep(file) == tentar_leitura_from(file, 1)

\* --------------------------------------------------------- logic.py stages
RECURSIVE Words(_)
\* The maximal runs of non-whitespace characters of s, in order.
Words(s) ==
    IF s = <<>> THEN <<>>
    ELSE IF s[1] \in WS THEN Words(Tail(s))
    ELSE LET n == CHOOSE k \in 1..Len(s) :
                      /\ \A j \in 1..k : s[j] \notin WS
                      /\ (k = Len(s) \/ s[k + 1] \in WS)
         IN <<SubSeq(s, 1, n)>> \o Words(SubSeq(s, n + 1, Len(s)))

\* Leading and trailing whitespace stripped, inner runs collapsed to a space.
NormalizeCell(s) == Join(Words(s), " ")

\* Position of column name col in the DataFrame.
ColIndex(d, col) == CHOOSE i \in 1..Len(d.columns) : d.columns[i] = col

\* limpar_espacos_em_colunas(df, colunas): (DataFrame, cells changed).
limpar_espacos_em_colunas(d, colunas) ==
    LET inCols(j) == d.columns[j] \in Range(colunas)
        cell(i, j) == IF inCols(j) THEN NormalizeCell(d.rows[i][j]) ELSE d.rows[i][j]
        out == [i \in 1..Len(d.rows) |-> [j \in 1..Len(d.columns) |-> cell(i, j)]]
        changed == {<<i, j>> \in (1..Len(d.rows)) \X (1..Len(d.columns)) :
                        out[i][j] # d.rows[i][j]}
    IN [df |-> [d EXCEPT !.rows = out], count |-> Cardinality(changed)]

\* filtrar_primeira_coluna_por_tamanho(df, col, min_len): (DataFrame, rows removed).
filtrar_primeira_coluna_por_tamanho(d, col, min_len) ==
    LET k == ColIndex(d, col)
        keep == [i \in 1..Len(d.rows) |-> Len(d.rows[i][k]) >= min_len]
        out == SelectIdx(d.rows, keep, 1)
    IN [df |-> [d EXCEPT !.rows = out], count |-> Len(d.rows) - Len(out)]

\* remover_duplicatas(df, col): (DataFrame, rows removed); first occurrence kept.
remover_duplicatas(d, col) ==
    LET k == ColIndex(d, col)
        keep == [i \in 1..Len(d.rows) |->
                    \A j \in 1..(i - 1) : d.rows[j][k] # d.rows[i][k]]
        out == SelectIdx(d.rows, keep, 1)
    IN [df |-> [d EXCEPT !.rows = out], count |-> Len(d.rows) - Len(out)]

\* --------------------------------------------------------------- UnifiedApp
VARIABLES
    df,                             \* self.df
    listbox_colunas,                \* the entries of self.listbox_colunas
    total_espacos_removidos,
    linhas_removidas_por_tamanho,
    total_duplicatas_removidas,
    last                            \* the handler that ran last: inputs and what it did

vars == <<df, listbox_colunas, total_espacos_removidos,
          linhas_removidas_por_tamanho, total_duplicatas_removidas, last>>
counters == <<total_espacos_removidos, linhas_removidas_por_tamanho,
              total_duplicatas_removidas>>

NoFile == TextFile("", <<>>)
NoWrite == [written |-> FALSE, bom |-> FALSE, lines |-> <<>>]
\* The record of a handler run; each handler fills in its own fields.
Ran(op, outcome) ==
    [op |-> op, outcome |-> outcome, file |-> NoFile, attempts |-> <<>>,
     sel |-> {}, min_text |-> <<>>, save |-> "", calls |-> <<>>, file_out |-> NoWrite]

\* __init__
Init ==
    /\ df = None
    /\ listbox_colunas = <<>>
    /\ total_espacos_removidos = 0
    /\ linhas_removidas_por_tamanho = 0
    /\ total_duplicatas_removidas = 0
    /\ last = Ran("__init__", "ok")

\* _carregar_colunas: the listbox emptied, then one entry per column.
carregar_colunas(colunas) == colunas

\* The reader chosen by the extension: the exception or the DataFrame.
ler_arquivo(file) ==
    IF file.ext \in {".xls", ".xlsx"}
    THEN LET r == read_excel(file)
         IN [raised |-> r.status # "ok", df |-> r.df, attempts |-> <<>>]
    ELSE IF file.ext \in {".csv", ".txt"}
    THEN tentar_leitura_csv_variavel_sep(file)
    ELSE [raised |-> TRUE, df |-> None, attempts |-> <<>>]

\* The read of every file, tabulated (the read is a function of the file alone).
Leitura == [file \in Files |-> ler_arquivo(file)]

\* selecionar_arquivo with the open dialog cancelled.
selecionar_arquivo_cancelado ==
    /\ last' = Ran("selecionar_arquivo", "cancelled")
    /\ UNCHANGED <<df, listbox_colunas, counters>>

\* Faulty variant of selecionar_arquivo: the counters are reset before the
\* read is tried, so a failed load clears them.
selecionar_arquivo_zera_antes(file) ==
    LET r == Leitura[file] IN
    /\ total_espacos_removidos' = 0
    /\ linhas_removidas_por_tamanho' = 0
    /\ total_duplicatas_removidas' = 0
    /\ IF r.raised
       THEN /\ last' = [Ran("selecionar_arquivo", "error") EXCEPT
                           !.file = file, !.attempts = r.attempts]
            /\ UNCHANGED <<df, listbox_colunas>>
       ELSE /\ df' = r.df
            /\ listbox_colunas' = carregar_colunas(r.df.columns)
            /\ last' = [Ran("selecionar_arquivo", "loaded") EXCEPT
                           !.file = file, !.attempts = r.attempts]

\* selecionar_arquivo with a file chosen in the open dialog.
selecionar_arquivo(file) ==
    LET r == Leitura[file] IN
    IF r.raised
    THEN /\ last' = [Ran("selecionar_arquivo", "error") EXCEPT
                        !.file = file, !.attempts = r.attempts]
         /\ UNCHANGED <<df, listbox_colunas, counters>>
    ELSE /\ df' = r.df
         /\ listbox_colunas' = carregar_colunas(r.df.columns)
         /\ total_espacos_removidos' = 0
         /\ linhas_removidas_por_tamanho' = 0
         /\ total_duplicatas_removidas' = 0
         /\ last' = [Ran("selecionar_arquivo", "loaded") EXCEPT
                        !.file = file, !.attempts = r.attempts]

\* Listbox entries are addressed by Tk index, from 0.
lb_get(lb, index) == lb[index + 1]
lb_delete(lb, first, last_) ==
    SelectIdx(lb, [i \in 1..Len(lb) |-> ~(first + 1 <= i /\ i <= last_ + 1)], 1)
lb_insert(lb, index, element) ==
    IF index >= Len(lb) THEN Append(lb, element)
    ELSE SubSeq(lb, 1, index) \o <<element>> \o SubSeq(lb, index + 1, Len(lb))

RECURSIVE Ascending(_)
\* curselection(): the selected indices in increasing order.
Ascending(S) ==
    IF S = {} THEN <<>>
    ELSE LET m == CHOOSE x \in S : \A y \in S : x <= y
         IN <<m>> \o Ascending(S \ {m})

reversed(s) == [i \in 1..Len(s) |-> s[Len(s) + 1 - i]]

\* Faulty variant of cima_passo: the moved entry is inserted twice and the
\* entry above is lost.
cima_passo_duplica(lb, index) ==
    IF index = 0 THEN lb
    ELSE LET texto == lb_get(lb, index)
             d == lb_delete(lb, index - 1, index)
         IN lb_insert(lb_insert(d, index - 1, texto), index, texto)

\* One pass of the loop body of mover_cima.
cima_passo(lb, index) ==
    IF index = 0 THEN lb
    ELSE LET texto == lb_get(lb, index)
             acima == lb_get(lb, index - 1)
             d == lb_delete(lb, index - 1, index)
         IN lb_insert(lb_insert(d, index - 1, texto), index, acima)

RECURSIVE cima_loop(_, _)
cima_loop(lb, selecionados) ==
    IF selecionados = <<>> THEN lb
    ELSE cima_loop(cima_passo(lb, Head(selecionados)), Tail(selecionados))

\* One pass of the loop body of mover_baixo; count is the size on entry.
baixo_passo(lb, index, count) ==
    IF index = count - 1 THEN lb
    ELSE LET texto == lb_get(lb, index)
             abaixo == lb_get(lb, index + 1)
             d == lb_delete(lb, index, index + 1)
         IN lb_insert(lb_insert(d, index, abaixo), index + 1, texto)

RECURSIVE baixo_loop(_, _, _)
baixo_loop(lb, selecionados, count) ==
    IF selecionados = <<>> THEN lb
    ELSE baixo_loop(baixo_passo(lb, Head(selecionados), count), Tail(selecionados), count)

RECURSIVE remover_loop(_, _)
remover_loop(lb, selecionados) ==
    IF selecionados = <<>> THEN lb
    ELSE remover_loop(lb_delete(lb, Head(selecionados), Head(selecionados)),
                      Tail(selecionados))

\* The selections the user can have made: any set of entries.
Selections == SUBSET (0..(Len(listbox_colunas) - 1))

mover_cima(sel) ==
    /\ listbox_colunas' = cima_loop(listbox_colunas, Ascending(sel))
    /\ last' = [Ran("mover_cima", "ok") EXCEPT !.sel = sel]
    /\ UNCHANGED <<df, counters>>

mover_baixo(sel) ==
    /\ listbox_colunas' = baixo_loop(listbox_colunas, reversed(Ascending(sel)),
                                     Len(listbox_colunas))
    /\ last' = [Ran("mover_baixo", "ok") EXCEPT !.sel = sel]
    /\ UNCHANGED <<df, counters>>

remover_colunas(sel) ==
    /\ listbox_colunas' = remover_loop(listbox_colunas, reversed(Ascending(sel)))
    /\ last' = [Ran("remover_colunas", "ok") EXCEPT !.sel = sel]
    /\ UNCHANGED <<df, counters>>

\* ------------------------------------------------------------------ gerar_txt
Digits == <<"0", "1", "2", "3", "4", "5", "6", "7", "8", "9">>
DigitValue(c) == (CHOOSE i \in 1..10 : Digits[i] = c) - 1

RECURSIVE Decimal(_)
Decimal(ds) ==
    IF ds = <<>> THEN 0
    ELSE 10 * Decimal(SubSeq(ds, 1, Len(ds) - 1)) + DigitValue(ds[Len(ds)])

\* int(text): an optional sign and at least one digit, or ValueError.
int(text) ==
    LET signed == text # <<>> /\ text[1] \in {"-", "+"}
        ds == IF signed THEN Tail(text) ELSE text
    IN IF ds = <<>> \/ \E i \in 1..Len(ds) : ds[i] \notin Range(Digits)
       THEN [ok |-> FALSE, value |-> 0]
       ELSE [ok |-> TRUE,
             value |-> IF signed /\ text[1] = "-" THEN 0 - Decimal(ds) ELSE Decimal(ds)]

\* Faulty variant of ler_min_len: the lower limit is not checked.
ler_min_len_sem_limite(text) == int(text)

\* The try block of gerar_txt: min_len, or ValueError when the text is no
\* integer or the integer is below 1.
ler_min_len(text) ==
    LET n == int(text)
    IN IF n.ok /\ n.value >= 1 THEN n ELSE [ok |-> FALSE, value |-> 0]

\* self.df[colunas]: the named columns in the order given (KeyError when one
\* is missing: see gerar_txt).
Project(d, colunas) ==
    [d EXCEPT !.columns = colunas,
              !.rows = [i \in 1..Len(d.rows) |->
                          [j \in 1..Len(colunas) |-> d.rows[i][ColIndex(d, colunas[j])]]]]

Call(fn, arg, cols, min_len, r) ==
    [fn |-> fn, arg |-> arg, cols |-> cols, min_len |-> min_len,
     out |-> r.df, count |-> r.count]

\* Faulty variant of pipeline: the filter is handed the copy, not the
\* normaliser's result.
pipeline_filtra_copia(d, colunas_selecionadas, min_len) ==
    LET primeira_col == colunas_selecionadas[1]
        copy == Project(d, colunas_selecionadas)
        r1 == limpar_espacos_em_colunas(copy, colunas_selecionadas)
        r2 == filtrar_primeira_coluna_por_tamanho(copy, primeira_col, min_len)
        r3 == remover_duplicatas(r2.df, primeira_col)
    IN << Call("limpar_espacos_em_colunas", copy, colunas_selecionadas, 0, r1),
          Call("filtrar_primeira_coluna_por_tamanho", copy, <<primeira_col>>, min_len, r2),
          Call("remover_duplicatas", r2.df, <<primeira_col>>, 0, r3) >>

\* Faulty variant of pipeline: duplicates are removed before the length
\* filter runs.
pipeline_duplicatas_antes(d, colunas_selecionadas, min_len) ==
    LET primeira_col == colunas_selecionadas[1]
        copy == Project(d, colunas_selecionadas)
        r1 == limpar_espacos_em_colunas(copy, colunas_selecionadas)
        r3 == remover_duplicatas(r1.df, primeira_col)
        r2 == filtrar_primeira_coluna_por_tamanho(r3.df, primeira_col, min_len)
    IN << Call("limpar_espacos_em_colunas", copy, colunas_selecionadas, 0, r1),
          Call("filtrar_primeira_coluna_por_tamanho", r3.df, <<primeira_col>>, min_len, r2),
          Call("remover_duplicatas", r1.df, <<primeira_col>>, 0, r3) >>

\* Faulty variant of pipeline: duplicates are looked for in the last selected
\* column.
pipeline_chave_ultima(d, colunas_selecionadas, min_len) ==
    LET primeira_col == colunas_selecionadas[1]
        ultima_col == colunas_selecionadas[Len(colunas_selecionadas)]
        copy == Project(d, colunas_selecionadas)
        r1 == limpar_espacos_em_colunas(copy, colunas_selecionadas)
        r2 == filtrar_primeira_coluna_por_tamanho(r1.df, primeira_col, min_len)
        r3 == remover_duplicatas(r2.df, ultima_col)
    IN << Call("limpar_espacos_em_colunas", copy, colunas_selecionadas, 0, r1),
          Call("filtrar_primeira_coluna_por_tamanho", r1.df, <<primeira_col>>, min_len, r2),
          Call("remover_duplicatas", r2.df, <<ultima_col>>, 0, r3) >>

\* The three stage calls of gerar_txt, in the order made, each with its
\* arguments and what it returned.
pipeline(d, colunas_selecionadas, min_len) ==
    LET primeira_col == colunas_selecionadas[1]
        copy == Project(d, colunas_selecionadas)
        r1 == limpar_espacos_em_colunas(copy, colunas_selecionadas)
        r2 == filtrar_primeira_coluna_por_tamanho(r1.df, primeira_col, min_len)
        r3 == remover_duplicatas(r2.df, primeira_col)
    IN << Call("limpar_espacos_em_colunas", copy, colunas_selecionadas, 0, r1),
          Call("filtrar_primeira_coluna_por_tamanho", r1.df, <<primeira_col>>, min_len, r2),
          Call("remover_duplicatas", r2.df, <<primeira_col>>, 0, r3) >>

\* Faulty variant of contadores: the counts are added to the old values.
contadores_acumulados(calls) ==
    << total_espacos_removidos + calls[1].count,
       linhas_removidas_por_tamanho + calls[2].count,
       total_duplicatas_removidas + calls[3].count >>

\* The three counters as gerar_txt assigns them from the stages' results.
contadores(calls) == <<calls[1].count, calls[2].count, calls[3].count>>

\* Faulty variant of df_apos_pipeline: the normaliser is handed self.df
\* itself and rewrites its cells in place.
df_apos_pipeline_sem_copia(d, calls) ==
    limpar_espacos_em_colunas(d, calls[1].cols).df

\* self.df once the stages have run: they were handed
\* self.df[colunas].copy(), so what they write in place lands in the copy.
df_apos_pipeline(d, calls) == d

\* df.to_csv(path, sep=';', index=False, encoding='utf-8-sig')
to_csv(d) == [written |-> TRUE, bom |-> TRUE, lines |-> Lines(d, SEMI)]

\* What the save dialog and the write can do.
SaveOutcomes == {"cancel", "ok", "ioerror"}
\* What the spinbox can hold when the button is pressed.
SpinTexts == { <<"1">>, <<"3">>, <<"0">>, <<"-", "1">>, <<"x">>, <<>> }

gerar_txt(min_text, save) ==
    LET ran(outcome) == [Ran("gerar_txt", outcome) EXCEPT !.min_text = min_text]
        m == ler_min_len(min_text)
        calls == pipeline(df, listbox_colunas, m.value)
    IN
    IF df.none
    THEN last' = ran("no_file") /\ UNCHANGED <<df, listbox_colunas, counters>>
    ELSE IF listbox_colunas = <<>>
    THEN last' = ran("no_columns") /\ UNCHANGED <<df, listbox_colunas, counters>>
    ELSE IF ~m.ok
    THEN last' = ran("bad_min") /\ UNCHANGED <<df, listbox_colunas, counters>>
    ELSE IF ~(Range(listbox_colunas) \subseteq Range(df.columns))
    THEN last' = ran("KeyError") /\ UNCHANGED <<df, listbox_colunas, counters>>
    ELSE /\ total_espacos_removidos' = contadores(calls)[1]
         /\ linhas_removidas_por_tamanho' = contadores(calls)[2]
         /\ total_duplicatas_removidas' = contadores(calls)[3]
         /\ df' = df_apos_pipeline(df, calls)
         /\ UNCHANGED listbox_colunas
         /\ last' = [ran(CASE save = "cancel" -> "cancelled"
                            [] save = "ok" -> "saved"
                            [] OTHER -> "write_error") EXCEPT
                        !.save = save,
                        !.calls = calls,
                        !.file_out = IF save = "ok" THEN to_csv(calls[3].out) ELSE NoWrite]

Next ==
    \/ selecionar_arquivo_cancelado
    \/ \E file \in Files : selecionar_arquivo(file)
    \/ \E sel \in Selections : mover_cima(sel)
    \/ \E sel \in Selections : mover_baixo(sel)
    \/ \E sel \in Selections : remover_colunas(sel)
    \/ \E min_text \in SpinTexts, save \in SaveOutcomes : gerar_txt(min_text, save)

Spec == Init /\ [][Next]_vars

\* ================================================================== claims
IsLoad == last.op = "selecionar_arquivo" /\ last.outcome \in {"loaded", "error"}
IsTextLoad == IsLoad /\ last.file.ext \in {".csv", ".txt"}
ReachedPipeline == last.op = "gerar_txt" /\ last.calls # <<>>

\* A comma-delimited file: a header of at least two comma-separated fields,
\* the same number of fields on every line, no other delimiter and no quote.
CommaDelimited(file) ==
    /\ Len(file.lines) > 0
    /\ Len(Split(file.lines[1], COMMA)) > 1
    /\ \A i \in 1..Len(file.lines) :
          Len(Split(file.lines[i], COMMA)) = Len(Split(file.lines[1], COMMA))
    /\ AllOf(file.lines) \cap {SEMI, TAB, QUOTE} = {}

CommaLatinLoad ==
    /\ IsTextLoad
    /\ CommaDelimited(last.file)
    /\ BYTE_E9 \in AllOf(last.file.lines)

\* C1: reading a comma-delimited Latin-1 .csv/.txt file succeeds and the
\* dataset has one column per comma-separated header field.
C1_CommaLatinColumnCount ==
    CommaLatinLoad =>
        /\ last.outcome = "loaded"
        /\ Len(df.columns) = Len(Split(last.file.lines[1], COMMA))

\* C1 (case reached): a comma-delimited Latin-1 file has been read.
C1_Witness == CommaLatinLoad /\ last.outcome = "loaded"

\* The six candidates in priority order.
Candidates ==
    << [sep |-> SEMI, encoding |-> "utf-8"], [sep |-> SEMI, encoding |-> "latin1"],
       [sep |-> COMMA, encoding |-> "utf-8"], [sep |-> COMMA, encoding |-> "latin1"],
       [sep |-> TAB, encoding |-> "utf-8"], [sep |-> TAB, encoding |-> "latin1"] >>
CandOf(a) == [sep |-> a.sep, encoding |-> a.encoding]
Rank(a) == CHOOSE k \in 1..6 : Candidates[k] = CandOf(a)
StatusOf(file, c) == read_csv(file, c.sep, c.encoding).status

\* What the attempts of a text load share in the claim and in its amendment:
\* each attempt reports the read of its candidate, candidates are taken in
\* priority order starting with the first, nothing follows a success, and a
\* load returns the dataset of its last, successful attempt.
C2_Common ==
    LET a == last.attempts IN
    /\ Len(a) >= 1 /\ Rank(a[1]) = 1
    /\ \A i \in 1..Len(a) : a[i].status = StatusOf(last.file, CandOf(a[i]))
    /\ \A i \in 1..(Len(a) - 1) : Rank(a[i]) < Rank(a[i + 1]) /\ a[i].status # "ok"
    /\ (last.outcome = "loaded") = (a[Len(a)].status = "ok")
    /\ last.outcome = "loaded" =>
          /\ df = read_csv(last.file, a[Len(a)].sep, a[Len(a)].encoding).df
          /\ \A k \in 1..(Rank(a[Len(a)]) - 1) : StatusOf(last.file, Candidates[k]) # "ok"

\* C2 as stated: the candidates are tried in order, the first that parses is
\* returned and nothing is tried after it, and the Latin encoding is tried
\* whenever the Unicode attempt with the same delimiter failed.
C2_LatinAfterEveryFailure ==
    IsTextLoad =>
        /\ C2_Common
        /\ \A i \in 1..Len(last.attempts) :
              (last.attempts[i].encoding = "utf-8" /\ last.attempts[i].status # "ok") =>
                  /\ i < Len(last.attempts)
                  /\ CandOf(last.attempts[i + 1]) =
                        [sep |-> last.attempts[i].sep, encoding |-> "latin1"]

\* C2 (amended): as stated, except that the Latin encoding is tried exactly
\* when the Unicode attempt with the same delimiter failed with a decoding
\* error; after any other failure the next delimiter is tried.
C2_LatinAfterDecodeError ==
    IsTextLoad =>
        LET a == last.attempts IN
        /\ C2_Common
        /\ \A i \in 1..Len(a) :
              /\ (a[i].encoding = "utf-8" /\ a[i].status = "UnicodeDecodeError") =>
                    /\ i < Len(a)
                    /\ CandOf(a[i + 1]) = [sep |-> a[i].sep, encoding |-> "latin1"]
              /\ a[i].encoding = "latin1" =>
                    /\ i > 1
                    /\ a[i - 1] = [sep |-> a[i].sep, encoding |-> "utf-8",
                                   status |-> "UnicodeDecodeError"]
              /\ (a[i].status \notin {"ok", "UnicodeDecodeError"} /\ a[i].sep # TAB) =>
                    /\ i < Len(a)
                    /\ CandOf(a[i + 1]) = Candidates[2 * ((Rank(a[i]) + 1) \div 2) + 1]

\* C2 (case reached): a Unicode attempt failed without a decoding error and
\* the reader went on to the next delimiter; and a Latin attempt was made.
C2_Witness ==
    /\ IsTextLoad
    /\ \/ /\ Len(last.attempts) = 3
           /\ \A i \in 1..3 : last.attempts[i].encoding = "utf-8"
       \/ /\ Len(last.attempts) = 2
           /\ last.attempts[2].encoding = "latin1" /\ last.outcome = "loaded"

\* No reader strategy reads the file.
NoStrategySucceeds(file) ==
    IF file.ext \in {".csv", ".txt"}
    THEN \A k \in 1..6 : StatusOf(file, Candidates[k]) # "ok"
    ELSE IF file.ext \in {".xls", ".xlsx"}
    THEN read_excel(file).status # "ok"
    ELSE TRUE

C3_Step ==
    (last'.op = "selecionar_arquivo" /\ last'.outcome \in {"loaded", "error"}) =>
        /\ (last'.outcome = "error") = NoStrategySucceeds(last'.file)
        /\ Len(last'.attempts) <= 6
        /\ last'.outcome = "error" => UNCHANGED <<df, listbox_colunas, counters>>

\* C3: a load fails exactly when no reader strategy succeeds, the reader makes
\* at most six attempts, and a failed load leaves the dataset, the column
\* selection and the three counters as they were.
C3_FailedLoad == [][C3_Step]_vars

\* C3 (case reached): a load failed after six attempts while a dataset with a
\* reordered selection and non-zero counters was in memory.
C3_Witness ==
    /\ last.op = "selecionar_arquivo" /\ last.outcome = "error"
    /\ Len(last.attempts) = 6
    /\ ~df.none
    /\ listbox_colunas # df.columns
    /\ total_espacos_removidos + linhas_removidas_por_tamanho
         + total_duplicatas_removidas > 0

\* The text is an integer of at least 1.
PositiveInteger(text) == int(text).ok /\ int(text).value >= 1

C4_Step ==
    (/\ last'.op = "gerar_txt"
     /\ (df.none \/ listbox_colunas = <<>> \/ ~PositiveInteger(last'.min_text))) =>
        /\ last'.calls = <<>>
        /\ ~last'.file_out.written
        /\ UNCHANGED <<df, listbox_colunas, counters>>

\* C4: an export with a threshold that is no integer or is below 1, with an
\* empty column selection or with no dataset loaded calls no stage, writes
\* nothing and leaves dataset, selection and counters unchanged.
C4_InvalidNeverReachesPipeline == [][C4_Step]_vars

\* C4 (case reached): an export with threshold 0 on a loaded dataset with
\* columns selected was turned away.
C4_Witness ==
    /\ last.op = "gerar_txt" /\ last.outcome = "bad_min"
    /\ last.min_text = <<"0">>
    /\ ~df.none /\ Len(df.rows) > 0
    /\ listbox_colunas # <<>>

\* Cells that differ between two tables of the same shape.
CellsChanged(a, b) ==
    Cardinality({<<i, j>> \in (1..Len(a.rows)) \X (1..Len(a.columns)) :
                    a.rows[i][j] # b.rows[i][j]})

\* C5: the counters are never negative, all three are 0 right after a
\* successful load, and after an export that reached the pipeline each holds
\* the count of its stage in that run.
C5_Counters ==
    /\ total_espacos_removidos >= 0
    /\ linhas_removidas_por_tamanho >= 0
    /\ total_duplicatas_removidas >= 0
    /\ (last.op = "selecionar_arquivo" /\ last.outcome = "loaded") =>
          counters = <<0, 0, 0>>
    /\ ReachedPipeline =>
          /\ total_espacos_removidos = last.calls[1].count
          /\ total_espacos_removidos = CellsChanged(last.calls[1].arg, last.calls[1].out)
          /\ linhas_removidas_por_tamanho = last.calls[2].count
          /\ linhas_removidas_por_tamanho =
                Len(last.calls[2].arg.rows) - Len(last.calls[2].out.rows)
          /\ total_duplicatas_removidas = last.calls[3].count
          /\ total_duplicatas_removidas =
                Len(last.calls[3].arg.rows) - Len(last.calls[3].out.rows)

\* C5 (case reached): an export in which every stage changed something.
C5_Witness ==
    /\ ReachedPipeline
    /\ total_espacos_removidos > 0
    /\ linhas_removidas_por_tamanho > 0
    /\ total_duplicatas_removidas > 0

\* The rows of table t are the rows of d cut to the columns cols, in that order.
IsSelectionOf(t, d, cols) ==
    /\ t.columns = cols
    /\ Len(t.rows) = Len(d.rows)
    /\ \A i \in 1..Len(t.rows) :
          /\ Len(t.rows[i]) = Len(cols)
          /\ \A j \in 1..Len(cols) :
                \E k \in 1..Len(d.columns) :
                    d.columns[k] = cols[j] /\ t.rows[i][j] = d.rows[i][k]

\* C6: an export calls normalize, filter, dedupe in that order and writes
\* last, each stage is handed the table the previous one returned, filter and
\* dedupe are keyed on the first selected column, and the table written has
\* exactly the selected columns in the selected order.
C6_StageOrder ==
    ReachedPipeline =>
        LET c == last.calls IN
        /\ <<c[1].fn, c[2].fn, c[3].fn>> =
              <<"limpar_espacos_em_colunas", "filtrar_primeira_coluna_por_tamanho",
                "remover_duplicatas">>
        /\ IsSelectionOf(c[1].arg, df, listbox_colunas)
        /\ c[1].cols = listbox_colunas
        /\ c[2].arg = c[1].out
        /\ c[3].arg = c[2].out
        /\ c[2].cols = <<listbox_colunas[1]>>
        /\ c[3].cols = <<listbox_colunas[1]>>
        /\ c[2].min_len = int(last.min_text).value
        /\ c[3].out.columns = listbox_colunas
        /\ last.file_out.written = (last.outcome = "saved")
        /\ last.outcome = "saved" =>
              /\ Len(last.file_out.lines) = 1 + Len(c[3].out.rows)
              /\ last.file_out.lines[1] = Join(listbox_colunas, SEMI)
              /\ \A i \in 1..Len(c[3].out.rows) :
                    last.file_out.lines[i + 1] = Join(c[3].out.rows[i], SEMI)

\* C6 (case reached): a file was written with the columns reordered, after
\* the normaliser changed cells and a later stage dropped rows.
C6_Witness ==
    /\ ReachedPipeline /\ last.outcome = "saved"
    /\ Len(listbox_colunas) = 2 /\ listbox_colunas # df.columns
    /\ Len(last.file_out.lines) > 1
    /\ last.calls[1].arg # last.calls[1].out
    /\ Len(last.calls[3].out.rows) < Len(df.rows)

C7_Step ==
    last'.op = "gerar_txt" =>
        /\ df' = df
        /\ (/\ ReachedPipeline
             /\ last'.calls # <<>>
             /\ last'.min_text = last.min_text
             /\ listbox_colunas' = listbox_colunas) =>
                /\ counters' = counters
                /\ last'.calls[3].out = last.calls[3].out

\* C7: an export leaves the loaded dataset as it was, whether it writes, is
\* cancelled or fails to write; a second export with the same selection and
\* threshold yields the same counters and the same output table.
C7_DatasetNotMutated == [][C7_Step]_vars

\* C7 (case reached): an export whose write failed changed cells and dropped
\* rows in its copy, and the dataset still holds them.
C7_Witness ==
    /\ ReachedPipeline /\ last.outcome = "write_error"
    /\ total_espacos_removidos > 0
    /\ Len(last.calls[3].out.rows) < Len(df.rows)
    /\ IsSelectionOf(last.calls[1].arg, df, listbox_colunas)
    /\ last.calls[1].arg # last.calls[1].out

\* The export ran on the rows ab, abcd, ab of a single column A with
\* threshold 3.
Scenario2 ==
    /\ ReachedPipeline
    /\ df.columns = <<ColA>>
    /\ df.rows = << <<ab>>, <<abcd>>, <<ab>> >>
    /\ listbox_colunas = <<ColA>>
    /\ int(last.min_text).value = 3

\* The rows of the normalised table whose key (the first selected column) is
\* shorter than the threshold.
ShortRows ==
    {i \in 1..Len(last.calls[1].out.rows) :
        Len(last.calls[1].out.rows[i][1]) < int(last.min_text).value}

\* C8 as stated: in scenario 2 the length filter reports 1 row removed and
\* dedupe 0, and the filter's count is always the number of rows whose key
\* is shorter than the threshold.
C8_ScenarioOneRemoved ==
    /\ Scenario2 =>
          linhas_removidas_por_tamanho = 1 /\ total_duplicatas_removidas = 0
    /\ ReachedPipeline => linhas_removidas_por_tamanho = Cardinality(ShortRows)

\* C8 (amended): in scenario 2 the length filter drops both ab rows and
\* reports 2 rows removed, dedupe on the single remaining row reports 0, and
\* the filter's count is always the number of rows whose key is shorter than
\* the threshold.
C8_ScenarioTwoRemoved ==
    /\ Scenario2 =>
          /\ linhas_removidas_por_tamanho = 2
          /\ total_duplicatas_removidas = 0
          /\ last.calls[3].out.rows = << <<abcd>> >>
    /\ ReachedPipeline => linhas_removidas_por_tamanho = Cardinality(ShortRows)

\* C8 (case reached): the export of scenario 2 has run.
C8_Witness == Scenario2

\* C9: dedupe keeps, for every key, the earliest row with that key and no
\* other, in input order, and reports input rows minus output rows.
C9_FirstWins ==
    ReachedPipeline =>
        LET rin == last.calls[3].arg.rows
            rout == last.calls[3].out.rows
            k == ColIndex(last.calls[3].arg, listbox_colunas[1])
            First(v) == CHOOSE i \in 1..Len(rin) :
                            rin[i][k] = v /\ \A j \in 1..(i - 1) : rin[j][k] # v
        IN /\ {rout[p][k] : p \in 1..Len(rout)} = {rin[i][k] : i \in 1..Len(rin)}
           /\ \A p, q \in 1..Len(rout) : p < q =>
                 /\ rout[p][k] # rout[q][k]
                 /\ First(rout[p][k]) < First(rout[q][k])
           /\ \A p \in 1..Len(rout) : rout[p] = rin[First(rout[p][k])]
           /\ total_duplicatas_removidas = Len(rin) - Len(rout)

\* C9 (case reached): dedupe dropped a row that shares its key with an
\* earlier, different row, and kept at least two rows.
C9_Witness ==
    /\ ReachedPipeline
    /\ Len(last.calls[3].out.rows) >= 2
    /\ \E i, j \in 1..Len(last.calls[3].arg.rows) :
          /\ i < j
          /\ last.calls[3].arg.rows[i][1] = last.calls[3].arg.rows[j][1]
          /\ last.calls[3].arg.rows[i] # last.calls[3].arg.rows[j]

\* The selection is a duplicate-free sequence of columns of the dataset.
SelectionOk(lb, d) ==
    /\ \A i, j \in 1..Len(lb) : i # j => lb[i] # lb[j]
    /\ Range(lb) \subseteq Range(d.columns)

C10_Step ==
    /\ SelectionOk(listbox_colunas', df')
    /\ last'.outcome # "KeyError"
    /\ (last'.op = "selecionar_arquivo" /\ last'.outcome = "loaded") =>
          listbox_colunas' = df'.columns
    /\ last'.op \in {"mover_cima", "mover_baixo"} =>
          /\ Len(listbox_colunas') = Len(listbox_colunas)
          /\ Range(listbox_colunas') = Range(listbox_colunas)
    /\ last'.op = "remover_colunas" =>
          listbox_colunas' =
              SelectIdx(listbox_colunas,
                        [i \in 1..Len(listbox_colunas) |-> (i - 1) \notin last'.sel], 1)

====
